---------------------------- MODULE Spec2Model ----------------------------
(***************************************************************************)
(* Model of app/main/models.py: the Category and Item Django models, their *)
(* save() overrides, Item.increment_views() and                            *)
(* Item.notify_registered_users().                                         *)
(*                                                                         *)
(* The store is the two tables main_category and main_item.  A row write   *)
(* is Django's Model.save(): UPDATE when the instance has a primary key    *)
(* whose row exists, INSERT otherwise, rejected with IntegrityError when a *)
(* unique=True column or the ForeignKey constraint would be violated.      *)
(* Names and slugs are sequences of one-character strings, so slugify is   *)
(* computed character by character.                                        *)
(***************************************************************************)
EXTENDS Integers, Sequences, FiniteSets, TLC

(***************************************************************************)
(* Bounds of the model.                                                    *)
(***************************************************************************)
MaxCategories == 2      \* primary keys the Category AutoField hands out
MaxItems == 2           \* primary keys the Item AutoField hands out
MaxViews == 2           \* increment_views() is explored up to this count
MaxUsers == 2           \* rows of the User table

Requests == {"r1", "r2"}   \* request handlers holding an Item instance

(***************************************************************************)
(* Program constants.                                                      *)
(***************************************************************************)
THUMBNAIL_SUFFIX == "_resized"
DefaultCategory == 1    \* ForeignKey(Category, default=1, ...)
DefaultViews == 0       \* IntegerField(default=0)
NoPk == 0               \* an unsaved instance: id is None

(***************************************************************************)
(* Input alphabets.                                                        *)
(***************************************************************************)
TomatoSoup == <<"T", "o", "m", "a", "t", "o", " ", "S", "o", "u", "p">>
TomatoSoupLoud == <<"T", "o", "m", "a", "t", "o", " ", " ", "S", "o", "u", "p", "!">>
tomato_soup == <<"t", "o", "m", "a", "t", "o", "-", "s", "o", "u", "p">>
Pate == <<"P", "a", "t", "é">>
pate == <<"p", "a", "t", "e">>
somethingElse == <<"x">>

Names == {TomatoSoup, TomatoSoupLoud, Pate}
CallerSlugs == {<<>>, somethingElse}

GoodImage == [stem |-> "soup", ext |-> ".png", suffix |-> ""]
BadImage == [stem |-> "broken", ext |-> ".png", suffix |-> ""]
Images == {GoodImage, BadImage}
NoImage == [stem |-> "", ext |-> "", suffix |-> ""]

(***************************************************************************)
(* django.utils.text.slugify, as called by both save() methods.            *)
(***************************************************************************)
UpperCase == {"T", "S", "P"}
WordChars == {"a", "e", "m", "o", "p", "s", "t", "u", "x", "_"} \cup UpperCase
SpaceChars == {" "}

\* unicodedata.normalize("NFKD", c).encode("ascii", "ignore")
AsciiFold(c) ==
    IF c = "é" THEN <<"e">>
    ELSE IF c \in WordChars \cup SpaceChars \cup {"-", "!"} THEN <<c>>
    ELSE <<>>

Lower(c) ==
    CASE c = "T" -> "t"
      [] c = "S" -> "s"
      [] c = "P" -> "p"
      [] OTHER -> c

RECURSIVE FoldAll(_)
FoldAll(s) ==
    IF s = <<>> THEN <<>> ELSE AsciiFold(Head(s)) \o FoldAll(Tail(s))

LowerAll(s) == [i \in 1..Len(s) |-> Lower(s[i])]

\* re.sub(r"[^\w\s-]", "", value)
KeepSlugChars(s) ==
    SelectSeq(s, LAMBDA c : c \in WordChars \cup SpaceChars \cup {"-"})

IsSep(c) == c \in SpaceChars \cup {"-"}

\* re.sub(r"[-\s]+", "-", value)
RECURSIVE CollapseSeps(_)
CollapseSeps(s) ==
    IF s = <<>> THEN <<>>
    ELSE IF IsSep(Head(s))
         THEN IF Len(s) > 1 /\ IsSep(s[2])
              THEN CollapseSeps(Tail(s))
              ELSE <<"-">> \o CollapseSeps(Tail(s))
         ELSE <<Head(s)>> \o CollapseSeps(Tail(s))

\* value.strip("-_")
RECURSIVE StripLeft(_)
StripLeft(s) ==
    IF s # <<>> /\ Head(s) \in {"-", "_"} THEN StripLeft(Tail(s)) ELSE s

RECURSIVE StripRight(_)
StripRight(s) ==
    IF s # <<>> /\ s[Len(s)] \in {"-", "_"}
    THEN StripRight(SubSeq(s, 1, Len(s) - 1))
    ELSE s

Slugified(value) ==
    StripRight(StripLeft(CollapseSeps(KeepSlugChars(LowerAll(FoldAll(value))))))

\* slugify on the names the handlers are given, computed once per name
SlugTable == [value \in Names |-> Slugified(value)]

slugify(value) == SlugTable[value]

VARIABLES
    SES_IDENTITY_ARN,   \* app.config.SES_IDENTITY_ARN is set (TRUE) or empty
    users,              \* User.objects.all(), in query order
    categories,         \* table main_category: id -> row
    items,              \* table main_item: id -> row
    nextCategoryId,     \* next value of Category.id (AutoField)
    nextItemId,         \* next value of Item.id (AutoField)
    requests,           \* per request handler: the Item instance it holds
    last                \* what the latest step did and returned to its caller

vars == <<SES_IDENTITY_ARN, users, categories, items, nextCategoryId,
          nextItemId, requests, last>>

(***************************************************************************)
(* The User table read by notify_registered_users.                         *)
(***************************************************************************)
UserRow(i) ==
    [username |-> <<"u", ToString(i)>>, email |-> <<"u", ToString(i), "@">>]

\* str.title() on a one-word username
Title(s) == [i \in 1..Len(s) |-> IF i = 1 /\ s[i] = "u" THEN "U" ELSE s[i]]

(***************************************************************************)
(* BaseModelMixin.resize_image (app/main/mixins.py): returns the resized   *)
(* image, named with the suffix, or raises when the image cannot be        *)
(* decoded.                                                                *)
(***************************************************************************)
ImageError == [error |-> "ImageError"]

Decodable(image) == image.stem = GoodImage.stem

resize_image(image, suffix) ==
    IF Decodable(image)
    THEN [image EXCEPT !.suffix = suffix]
    ELSE ImageError

(***************************************************************************)
(* Column constraints declared by the model fields.                        *)
(***************************************************************************)
\* category_slug declared without unique=True
CategoryUniqueNameOnly(table, row) ==
    \A i \in DOMAIN table :
        i # row.id => table[i].category_name # row.category_name

\* Category.category_name and Category.category_slug are unique=True
CategoryUnique(table, row) ==
    \A i \in DOMAIN table :
        i # row.id =>
            /\ table[i].category_name # row.category_name
            /\ table[i].category_slug # row.category_slug

\* Item.item_name and Item.item_slug are unique=True
ItemUnique(table, row) ==
    \A i \in DOMAIN table :
        i # row.id =>
            /\ table[i].item_name # row.item_name
            /\ table[i].item_slug # row.item_slug

\* the ForeignKey declared with db_constraint=False
ForeignKeyUnchecked(itemTable, categoryTable) == TRUE

\* Item.category_name is a ForeignKey to Category: the database constraint
ForeignKeyOK(itemTable, categoryTable) ==
    \A i \in DOMAIN itemTable :
        itemTable[i].category_name \in DOMAIN categoryTable

Put(table, row) ==
    [i \in DOMAIN table \cup {row.id} |-> IF i = row.id THEN row ELSE table[i]]

Remove(table, id) == [i \in DOMAIN table \ {id} |-> table[i]]

(***************************************************************************)
(* models.Model.save() for a Category: super().save() of Category.save.    *)
(***************************************************************************)
CategoryWrite(self) ==
    LET row == IF self.id = NoPk THEN [self EXCEPT !.id = nextCategoryId] ELSE self
    IN  IF CategoryUnique(categories, row)
        THEN [ok |-> TRUE, self |-> row, table |-> Put(categories, row)]
        ELSE [ok |-> FALSE, self |-> self, table |-> categories]

(***************************************************************************)
(* Category.save                                                           *)
(***************************************************************************)
\* save() deriving the slug only when the instance has none
CategorySaveKeepingSlug(self) ==
    LET image == resize_image(self.image, "")
    IN  IF image = ImageError
        THEN [outcome |-> "ImageError", self |-> self, table |-> categories]
        ELSE LET s1 == [self EXCEPT !.image = image,
                                    !.category_slug =
                                        IF self.category_slug = <<>>
                                        THEN slugify(self.category_name)
                                        ELSE self.category_slug]
                 w == CategoryWrite(s1)
             IN  IF w.ok
                 THEN [outcome |-> "returned", self |-> w.self, table |-> w.table]
                 ELSE [outcome |-> "IntegrityError", self |-> s1, table |-> categories]

CategorySave(self) ==
    LET image == resize_image(self.image, "")
    IN  IF image = ImageError
        THEN [outcome |-> "ImageError", self |-> self, table |-> categories]
        ELSE LET s1 == [self EXCEPT !.image = image,
                                    !.category_slug = slugify(self.category_name)]
                 w == CategoryWrite(s1)
             IN  IF w.ok
                 THEN [outcome |-> "returned", self |-> w.self, table |-> w.table]
                 ELSE [outcome |-> "IntegrityError", self |-> s1, table |-> categories]

(***************************************************************************)
(* models.Model.save() for an Item: super().save() of Item.save.           *)
(***************************************************************************)
ItemWrite(self) ==
    LET row == IF self.id = NoPk THEN [self EXCEPT !.id = nextItemId] ELSE self
        table == Put(items, row)
    IN  IF ItemUnique(items, row) /\ ForeignKeyOK(table, categories)
        THEN [ok |-> TRUE, self |-> row, table |-> table]
        ELSE [ok |-> FALSE, self |-> self, table |-> items]

(***************************************************************************)
(* Item.notify_registered_users                                            *)
(***************************************************************************)
TemplateData(self, user) ==
    [base_url |-> "https://tari.kitchen",
     item_name |-> self.item_name,
     item_url_path |-> <<"/items/", categories[self.category_name].category_slug,
                         "/", self.item_slug>>,
     recette_image_url_path |-> <<self.image_thumbnail.stem, THUMBNAIL_SUFFIX, ".jpg">>,
     username |-> Title(user.username),
     email |-> user.email]

\* the list comprehension over User.objects.all()[1:]
DestinationsSkippingFirst(self) ==
    [i \in 1..(Len(users) - 1) |->
        [Destination |-> [ToAddresses |-> <<users[i + 1].email>>],
         ReplacementTemplateData |-> TemplateData(self, users[i + 1])]]

Destinations(self) ==
    [i \in 1..Len(users) |->
        [Destination |-> [ToAddresses |-> <<users[i].email>>],
         ReplacementTemplateData |-> TemplateData(self, users[i])]]

BulkRequest(self) ==
    [Source |-> "tari-alerts@tari.kitchen",
     SourceArn |-> SES_IDENTITY_ARN,
     ReplyToAddresses |-> <<>>,
     DefaultTags |-> <<>>,
     Template |-> "ItemCreatedNotification",
     Destinations |-> Destinations(self)]

\* the notifier without its try/except around the service call
notify_without_except(self, sesRaises) ==
    IF users # <<>> /\ self.category_name \notin DOMAIN categories
    THEN [outcome |-> "DoesNotExist", trace |-> <<"notify">>, sent |-> <<>>,
          raised |-> FALSE]
    ELSE IF ~SES_IDENTITY_ARN
    THEN [outcome |-> "returned", trace |-> <<"notify">>, sent |-> <<>>,
          raised |-> FALSE]
    ELSE [outcome |-> IF sesRaises THEN "ClientError" ELSE "returned",
          trace |-> <<"notify", "send_bulk_templated_email">>,
          sent |-> <<BulkRequest(self)>>,
          raised |-> sesRaises]

\* the notifier without its "if not SES_IDENTITY_ARN: return"
notify_without_identity_check(self, sesRaises) ==
    IF users # <<>> /\ self.category_name \notin DOMAIN categories
    THEN [outcome |-> "DoesNotExist", trace |-> <<"notify">>, sent |-> <<>>,
          raised |-> FALSE]
    ELSE [outcome |-> "returned",
          trace |-> <<"notify", "send_bulk_templated_email">>,
          sent |-> <<BulkRequest(self)>>,
          raised |-> sesRaises]

\* sesRaises: whether send_bulk_templated_email raises on this call
notify_registered_users(self, sesRaises) ==
    IF users # <<>> /\ self.category_name \notin DOMAIN categories
    THEN [outcome |-> "DoesNotExist", trace |-> <<"notify">>, sent |-> <<>>,
          raised |-> FALSE]
    ELSE IF ~SES_IDENTITY_ARN
    THEN [outcome |-> "returned", trace |-> <<"notify">>, sent |-> <<>>,
          raised |-> FALSE]
    ELSE \* try: send_bulk_templated_email(...)  except Exception: logger.error
         [outcome |-> "returned",
          trace |-> <<"notify", "send_bulk_templated_email">>,
          sent |-> <<BulkRequest(self)>>,
          raised |-> sesRaises]

(***************************************************************************)
(* Item.save                                                               *)
(***************************************************************************)
\* save() with the notification moved before super().save()
ItemSaveNotifyFirst(self, sesRaises) ==
    LET thumb == resize_image(self.image, THUMBNAIL_SUFFIX)
    IN  IF thumb = ImageError
        THEN [outcome |-> "ImageError", wrote |-> FALSE, self |-> self,
              table |-> items, trace |-> <<>>, sent |-> <<>>, raised |-> FALSE]
        ELSE LET s1 == [self EXCEPT !.image_thumbnail = thumb,
                                    !.item_slug = slugify(self.item_name)]
                 n == notify_registered_users(s1, sesRaises)
                 w == ItemWrite(s1)
             IN  IF ~w.ok
                 THEN [outcome |-> "IntegrityError", wrote |-> FALSE, self |-> s1,
                       table |-> items, trace |-> n.trace, sent |-> n.sent,
                       raised |-> n.raised]
                 ELSE [outcome |-> n.outcome, wrote |-> TRUE, self |-> w.self,
                       table |-> w.table, trace |-> n.trace \o <<"write">>,
                       sent |-> n.sent, raised |-> n.raised]

\* The result: what the caller sees (outcome), whether the row was written,
\* the instance, the table, the order of the write and the notification
\* (trace), the requests made to the email service (sent) and whether the
\* service call raised.
ItemSave(self, sesRaises) ==
    LET thumb == resize_image(self.image, THUMBNAIL_SUFFIX)
    IN  IF thumb = ImageError
        THEN [outcome |-> "ImageError", wrote |-> FALSE, self |-> self,
              table |-> items, trace |-> <<>>, sent |-> <<>>, raised |-> FALSE]
        ELSE LET s1 == [self EXCEPT !.image_thumbnail = thumb,
                                    !.item_slug = slugify(self.item_name)]
                 w == ItemWrite(s1)
             IN  IF ~w.ok
                 THEN [outcome |-> "IntegrityError", wrote |-> FALSE, self |-> s1,
                       table |-> items, trace |-> <<>>, sent |-> <<>>,
                       raised |-> FALSE]
                 ELSE LET n == notify_registered_users(w.self, sesRaises)
                      IN  [outcome |-> n.outcome, wrote |-> TRUE, self |-> w.self,
                           table |-> w.table, trace |-> <<"write">> \o n.trace,
                           sent |-> n.sent, raised |-> n.raised]

(***************************************************************************)
(* Item.increment_views: self.views += 1, then self.save()                 *)
(***************************************************************************)
\* "self.views =+ 1"
increment_views_assigning_one(self) == [self EXCEPT !.views = 1]

\* an update in the database, views = F("views") + 1, instead of in memory
increment_views_in_database(self) ==
    [self EXCEPT !.views = items[self.id].views + 1]

increment_views(self) == [self EXCEPT !.views = self.views + 1]

(***************************************************************************)
(* Instances and the record of what the latest step did and returned.      *)
(***************************************************************************)
NoInstance == [id |-> NoPk]

\* Category.create(kwargs)
NewCategory(name, slug, image) ==
    [id |-> NoPk, category_name |-> name, image |-> image, category_slug |-> slug]

\* Item.create(kwargs)
NewItem(name, slug, category, image) ==
    [id |-> NoPk, item_name |-> name, image |-> image, image_thumbnail |-> NoImage,
     item_slug |-> slug, category_name |-> category, views |-> DefaultViews]

Idle == [pc |-> "idle", self |-> NoInstance, sent |-> 0]

\* what a handler that called Item.save() did: the outcome seen by the
\* caller, the order of the store write and the notification, the requests
\* made to the email service, and the instance as written
ItemResult(op, r) ==
    [op |-> op, outcome |-> r.outcome, wrote |-> r.wrote, trace |-> r.trace,
     sent |-> r.sent, raised |-> r.raised,
     self |-> IF r.wrote THEN r.self ELSE NoInstance]

OtherResult(op, outcome, self) ==
    [op |-> op, outcome |-> outcome, wrote |-> outcome = "returned",
     trace |-> <<>>, sent |-> <<>>, raised |-> FALSE, self |-> self]

Init ==
    /\ SES_IDENTITY_ARN \in BOOLEAN
    /\ \E n \in 0..MaxUsers : users = [i \in 1..n |-> UserRow(i)]
    /\ categories = <<>>
    /\ items = <<>>
    /\ nextCategoryId = 1
    /\ nextItemId = 1
    /\ requests = [p \in Requests |-> Idle]
    /\ last = OtherResult("none", "none", NoInstance)

(***************************************************************************)
(* Category.create(kwargs).save()                                          *)
(***************************************************************************)
CreateCategoryFrom(names, slugs, images) ==
    \E name \in names, slug \in slugs, image \in images :
        /\ nextCategoryId <= MaxCategories
        /\ LET r == CategorySave(NewCategory(name, slug, image))
           IN  /\ categories' = r.table
               /\ nextCategoryId' =
                      IF r.outcome = "returned" THEN nextCategoryId + 1
                      ELSE nextCategoryId
               /\ last' = OtherResult("Category.create.save", r.outcome,
                                      IF r.outcome = "returned" THEN r.self
                                      ELSE NoInstance)
        /\ UNCHANGED <<SES_IDENTITY_ARN, users, items, nextItemId, requests>>

CreateCategory == CreateCategoryFrom(Names, CallerSlugs, Images)

(***************************************************************************)
(* An edit of a stored Category: Category.objects.get(id), set the fields, *)
(* save().                                                                 *)
(***************************************************************************)
EditCategory ==
    \E id \in DOMAIN categories, name \in Names, slug \in CallerSlugs :
        /\ LET self == [categories[id] EXCEPT !.category_name = name,
                                              !.category_slug = slug]
               r == CategorySave(self)
           IN  /\ categories' = r.table
               /\ last' = OtherResult("Category.save", r.outcome,
                                      IF r.outcome = "returned" THEN r.self
                                      ELSE NoInstance)
        /\ UNCHANGED <<SES_IDENTITY_ARN, users, items, nextCategoryId,
                       nextItemId, requests>>

(***************************************************************************)
(* models.Model.delete() of a Category.  on_delete of Item.category_name:  *)
(* the referencing Items are updated, then the Category row is deleted, in *)
(* one transaction that the ForeignKey constraint can reject.              *)
(***************************************************************************)
\* on_delete=models.CASCADE
CASCADE(itemTable, id) ==
    [i \in {j \in DOMAIN itemTable : itemTable[j].category_name # id} |->
        itemTable[i]]

\* on_delete=models.SET_DEFAULT with default=1
SET_DEFAULT(itemTable, id) ==
    [i \in DOMAIN itemTable |->
        IF itemTable[i].category_name = id
        THEN [itemTable[i] EXCEPT !.category_name = DefaultCategory]
        ELSE itemTable[i]]

CategoryDelete(id) ==
    LET itemTable == SET_DEFAULT(items, id)
        categoryTable == Remove(categories, id)
    IN  IF ForeignKeyOK(itemTable, categoryTable)
        THEN [outcome |-> "returned", items |-> itemTable, categories |-> categoryTable]
        ELSE [outcome |-> "IntegrityError", items |-> items, categories |-> categories]

DeleteCategory ==
    \E id \in DOMAIN categories :
        /\ LET r == CategoryDelete(id)
           IN  /\ categories' = r.categories
               /\ items' = r.items
               /\ last' = OtherResult("Category.delete", r.outcome,
                      [id |-> id,
                       referenced |-> {i \in DOMAIN items :
                                          items[i].category_name = id}])
        /\ UNCHANGED <<SES_IDENTITY_ARN, users, nextCategoryId, nextItemId, requests>>

(***************************************************************************)
(* Item.create(kwargs).save()                                              *)
(***************************************************************************)
CreateItemFrom(names, slugs, images) ==
    \E name \in names, slug \in slugs, category \in 1..MaxCategories,
       image \in images, sesRaises \in BOOLEAN :
        /\ nextItemId <= MaxItems
        /\ LET r == ItemSave(NewItem(name, slug, category, image), sesRaises)
           IN  /\ items' = r.table
               /\ nextItemId' = IF r.wrote THEN nextItemId + 1 ELSE nextItemId
               /\ last' = ItemResult("Item.create.save", r)
        /\ UNCHANGED <<SES_IDENTITY_ARN, users, categories, nextCategoryId, requests>>

CreateItem == CreateItemFrom(Names, CallerSlugs, Images)

(***************************************************************************)
(* An edit of a stored Item: Item.objects.get(id), set the fields, save(). *)
(***************************************************************************)
EditItem ==
    \E id \in DOMAIN items, name \in Names, slug \in CallerSlugs,
       sesRaises \in BOOLEAN :
        /\ LET self == [items[id] EXCEPT !.item_name = name, !.item_slug = slug]
               r == ItemSave(self, sesRaises)
           IN  /\ items' = r.table
               /\ last' = ItemResult("Item.save", r)
        /\ UNCHANGED <<SES_IDENTITY_ARN, users, categories, nextCategoryId,
                       nextItemId, requests>>

(***************************************************************************)
(* A request loads an Item: Item.objects.get(id=...)                       *)
(***************************************************************************)
LoadItem(p) ==
    \E id \in DOMAIN items :
        /\ requests[p].pc = "idle"
        /\ requests' = [requests EXCEPT
                            ![p] = [pc |-> "loaded", self |-> items[id], sent |-> 0]]
        /\ last' = OtherResult("Item.objects.get", "returned", NoInstance)
        /\ UNCHANGED <<SES_IDENTITY_ARN, users, categories, items,
                       nextCategoryId, nextItemId>>

(***************************************************************************)
(* The request calls increment_views() on the instance it holds.           *)
(***************************************************************************)
IncrementViews(p) ==
    \E sesRaises \in BOOLEAN :
        /\ requests[p].pc = "loaded"
        /\ requests[p].self.views < MaxViews
        /\ LET r == ItemSave(increment_views(requests[p].self), sesRaises)
           IN  /\ items' = r.table
               /\ requests' = [requests EXCEPT
                                   ![p] = [pc |-> "done", self |-> r.self,
                                           sent |-> Len(r.sent)]]
               /\ last' = ItemResult("Item.increment_views", r)
        /\ UNCHANGED <<SES_IDENTITY_ARN, users, categories, nextCategoryId, nextItemId>>

\* The request ends and drops its instance.
EndRequest(p) ==
    /\ requests[p].pc \in {"loaded", "done"}
    /\ requests' = [requests EXCEPT ![p] = Idle]
    /\ last' = OtherResult("response", "returned", NoInstance)
    /\ UNCHANGED <<SES_IDENTITY_ARN, users, categories, items,
                   nextCategoryId, nextItemId>>

Next ==
    \/ CreateCategory
    \/ EditCategory
    \/ DeleteCategory
    \/ CreateItem
    \/ EditItem
    \/ \E p \in Requests : LoadItem(p)
    \/ \E p \in Requests : IncrementViews(p)
    \/ \E p \in Requests : EndRequest(p)

Spec == Init /\ [][Next]_vars

NextStore ==
    \/ CreateCategory
    \/ EditCategory
    \/ DeleteCategory
    \/ CreateItem
    \/ EditItem

SpecStore == Init /\ [][NextStore]_vars

(***************************************************************************)
(* The view requests: the store is filled by the same create handlers,     *)
(* with one Category name and well-formed inputs, and the requests load    *)
(* Items and call increment_views() in any interleaving.                   *)
(***************************************************************************)
PublishCategory == CreateCategoryFrom({TomatoSoup}, {<<>>}, {GoodImage})

PublishItem == CreateItemFrom({TomatoSoup, Pate}, {<<>>}, {GoodImage})

NextRequests ==
    \/ PublishCategory
    \/ PublishItem
    \/ \E p \in Requests : LoadItem(p)
    \/ \E p \in Requests : IncrementViews(p)
    \/ \E p \in Requests : EndRequest(p)

SpecRequests == Init /\ [][NextRequests]_vars

(***************************************************************************)
(* Properties.                                                             *)
(***************************************************************************)
ItemSaveOps == {"Item.create.save", "Item.save", "Item.increment_views"}
CategorySaveOps == {"Category.create.save", "Category.save"}

\* the row of the instance the latest step wrote is in the Item table
LastRowStored ==
    /\ last.self.id \in DOMAIN items
    /\ items[last.self.id] = last.self

Positions(trace, event) == {i \in 1..Len(trace) : trace[i] = event}

\* C1: an Item.save() whose row write succeeded, with the outbound identity
\* configured and the email service call raising, returns normally to its
\* caller and the row is in the store with the values written.
C1_SaveSurvivesEmailFailure ==
    (/\ last.op \in ItemSaveOps
     /\ last.wrote
     /\ SES_IDENTITY_ARN
     /\ last.raised)
        => (last.outcome = "returned" /\ LastRowStored)

C1_Witness ==
    /\ last.op = "Item.create.save"
    /\ last.wrote
    /\ SES_IDENTITY_ARN
    /\ last.raised
    /\ Len(users) > 0
    /\ LastRowStored

\* C2: with no outbound identity configured, no Item.save() makes a request
\* to the email service, whatever the number of registered users, and a
\* save whose row write is accepted returns normally with the row stored.
C2_NoIdentityNoRequest ==
    (~SES_IDENTITY_ARN /\ last.op \in ItemSaveOps)
        => /\ last.sent = <<>>
           /\ Positions(last.trace, "send_bulk_templated_email") = {}
           /\ last.wrote => (last.outcome = "returned" /\ LastRowStored)

C2_Witness ==
    /\ ~SES_IDENTITY_ARN
    /\ last.op = "Item.create.save"
    /\ last.wrote
    /\ last.outcome = "returned"
    /\ Len(users) >= 2
    /\ last.sent = <<>>

\* C3: with the outbound identity configured, every Item.save() whose row
\* write succeeded makes exactly one bulk request, whether the call returns
\* or raises, and the request's destinations are the registered users, one
\* destination each, none left out and none twice.
C3_OneRequestAllUsers ==
    (SES_IDENTITY_ARN /\ last.op \in ItemSaveOps /\ last.wrote)
        => /\ Len(last.sent) = 1
           /\ Cardinality(Positions(last.trace, "send_bulk_templated_email")) = 1
           /\ LET D == last.sent[1].Destinations
              IN  /\ Len(D) = Len(users)
                  /\ \A u \in 1..Len(users) :
                        Cardinality({i \in 1..Len(D) :
                            D[i].Destination.ToAddresses = <<users[u].email>>}) = 1
                  /\ \A i \in 1..Len(D) :
                        D[i].ReplacementTemplateData.email = users[i].email
           /\ last.sent[1].ReplyToAddresses = <<>>
           /\ last.sent[1].DefaultTags = <<>>

C3_Witness ==
    /\ SES_IDENTITY_ARN
    /\ last.op \in ItemSaveOps
    /\ last.wrote
    /\ last.raised
    /\ Len(users) >= 2
    /\ Len(last.sent) = 1
    /\ Len(last.sent[1].Destinations) = Len(users)

\* C4: in every Item.save(), the notifier runs and the email request is made
\* only after the row write of that save has succeeded; a save that fails
\* (uniqueness or foreign-key violation, image that cannot be resized) makes
\* no notification attempt and changes neither table.
C4_Step ==
    last'.op \in ItemSaveOps =>
        /\ \A i \in 1..Len(last'.trace) :
              last'.trace[i] \in {"notify", "send_bulk_templated_email"}
                  => \E j \in 1..(i - 1) : last'.trace[j] = "write"
        /\ last'.sent # <<>> => last'.wrote
        /\ last'.outcome \in {"IntegrityError", "ImageError"}
              => /\ last'.trace = <<>>
                 /\ last'.sent = <<>>
                 /\ ~last'.wrote
                 /\ items' = items
                 /\ categories' = categories

C4_NotifyOnlyAfterWrite == [][C4_Step]_vars

C4_Witness ==
    /\ last.op \in ItemSaveOps
    /\ last.outcome = "IntegrityError"
    /\ items # <<>>
    /\ SES_IDENTITY_ARN
    /\ Len(users) > 0

\* C5: increment_views() called on an instance that equals the stored row
\* (no other writer since it was loaded) returns normally, leaves the stored
\* views one higher, and makes exactly one request to the email service
\* when the outbound identity is configured and none when it is not.  Each
\* call of a sequence of n calls starts from the row the previous one
\* stored, so n calls add n views and make n requests.
C5_Step ==
    \A p \in Requests :
        (/\ requests[p].pc = "loaded"
         /\ requests'[p].pc = "done"
         /\ requests[p].self.id \in DOMAIN items
         /\ items[requests[p].self.id] = requests[p].self)
            => LET id == requests[p].self.id
               IN  /\ last'.op = "Item.increment_views"
                   /\ last'.outcome = "returned"
                   /\ id \in DOMAIN items'
                   /\ items'[id].views = items[id].views + 1
                   /\ items'[id] = [items[id] EXCEPT !.views = items[id].views + 1]
                   /\ Len(last'.sent) = IF SES_IDENTITY_ARN THEN 1 ELSE 0
                   /\ requests'[p].sent = Len(last'.sent)

C5_IncrementAddsOne == [][C5_Step]_vars

\* two sequential calls: the second request loaded the row the first stored
C5_Witness ==
    /\ last.op = "Item.increment_views"
    /\ last.outcome = "returned"
    /\ LastRowStored
    /\ last.self.views = 2
    /\ SES_IDENTITY_ARN
    /\ Len(last.sent) = 1
    /\ \A p \in Requests : requests[p].pc \in {"idle", "done"}

\* C6: no two stored Categories share a name and no two share a slug; a
\* Category save that fails changes no row, and one that succeeds changes
\* no row but its own, so a second Category whose name or derived slug is
\* already stored is rejected and the stored row is not overwritten.
CategoriesUnique ==
    \A i, j \in DOMAIN categories :
        i # j => /\ categories[i].category_name # categories[j].category_name
                 /\ categories[i].category_slug # categories[j].category_slug

C6_Step ==
    last'.op \in CategorySaveOps =>
        /\ last'.outcome # "returned" => categories' = categories
        /\ last'.outcome = "returned" =>
              \A i \in DOMAIN categories :
                  i # last'.self.id =>
                      (i \in DOMAIN categories' /\ categories'[i] = categories[i])
        /\ last'.op = "Category.create.save" /\ last'.outcome = "returned" =>
              /\ last'.self.id \notin DOMAIN categories
              /\ \A i \in DOMAIN categories :
                    /\ categories[i].category_name # last'.self.category_name
                    /\ categories[i].category_slug # last'.self.category_slug

C6_CategoriesStayUnique == []CategoriesUnique /\ [][C6_Step]_vars

\* a second Category was refused while two names with one slug were offered
C6_Witness ==
    /\ last.op = "Category.create.save"
    /\ last.outcome = "IntegrityError"
    /\ Cardinality(DOMAIN categories) = 1
    /\ \E i \in DOMAIN categories : categories[i].category_name = TomatoSoupLoud

\* C7: deleting a Category deletes no Item; when the deletion is carried
\* out, every Item that referenced the Category references the default
\* Category (id 1) afterwards with every other field unchanged, and no
\* other Item changes; a deletion the store rejects changes nothing.
C7_Step ==
    last'.op = "Category.delete" =>
        /\ DOMAIN items' = DOMAIN items
        /\ last'.outcome = "returned" =>
              /\ last'.self.id \notin DOMAIN categories'
              /\ \A i \in DOMAIN items :
                    items'[i] =
                        IF items[i].category_name = last'.self.id
                        THEN [items[i] EXCEPT !.category_name = DefaultCategory]
                        ELSE items[i]
        /\ last'.outcome # "returned" =>
              (items' = items /\ categories' = categories)

C7_DeleteFallsBackToDefault == [][C7_Step]_vars

C7_Witness ==
    /\ last.op = "Category.delete"
    /\ last.outcome = "returned"
    /\ last.self.referenced # {}
    /\ last.self.id # DefaultCategory
    /\ \A i \in last.self.referenced :
          i \in DOMAIN items /\ items[i].category_name = DefaultCategory

\* C8: every stored Item and Category has the slug slugify gives for its
\* stored name, whatever slug the instance carried into save(); "Tomato
\* Soup" is stored with "tomato-soup", on the first save and on later ones.
C8_SlugFollowsName ==
    /\ \A i \in DOMAIN items :
          /\ items[i].item_slug = slugify(items[i].item_name)
          /\ items[i].item_name = TomatoSoup => items[i].item_slug = tomato_soup
    /\ \A i \in DOMAIN categories :
          /\ categories[i].category_slug = slugify(categories[i].category_name)
          /\ categories[i].category_name = TomatoSoup
                => categories[i].category_slug = tomato_soup

\* a stored Item and a stored Category saved again under "Tomato Soup"
C8_Witness ==
    /\ last.op = "Item.save"
    /\ last.outcome = "returned"
    /\ LastRowStored
    /\ last.self.item_name = TomatoSoup
    /\ last.self.item_slug = tomato_soup
    /\ \E i \in DOMAIN categories :
          /\ categories[i].category_name = Pate
          /\ categories[i].category_slug = pate

\* C9: increment_views() stores the views of the instance in memory plus
\* one, whatever the stored row holds by then, so two requests that loaded
\* the same row at views v can both finish with the row at v + 1; each of
\* them has made its own request to the email service.
C9_Step ==
    \A p \in Requests :
        (/\ requests[p].pc = "loaded"
         /\ requests'[p].pc = "done"
         /\ last'.outcome = "returned")
            => LET id == requests[p].self.id
               IN  /\ id \in DOMAIN items'
                   /\ items'[id].views = requests[p].self.views + 1
                   /\ requests'[p].sent = IF SES_IDENTITY_ARN THEN 1 ELSE 0

C9_WritesOwnCount == [][C9_Step]_vars

\* the lost update: both requests loaded views 0, both incremented, and the
\* row holds 1
C9_Witness ==
    /\ \A p \in Requests :
          /\ requests[p].pc = "done"
          /\ requests[p].self.id = 1
          /\ requests[p].self.views = 1
          /\ requests[p].sent = 1
    /\ 1 \in DOMAIN items
    /\ items[1].views = 1
    /\ SES_IDENTITY_ARN

=============================================================================
